---------------------------- MODULE Spec2Model ----------------------------
(***************************************************************************)
(* A model of the numtoa crate (src/src/lib.rs): the NumToA::numtoa        *)
(* conversions of integers to text in a caller-supplied byte buffer.       *)
(*                                                                         *)
(* One call is run step by step: the entry (sign / zero handling), the     *)
(* digit loops (the base_10! macro's four-digit loop and its tail, or the  *)
(* generic division loop), the sign push, and reverse()'s swap loop.       *)
(* Bytes are their ASCII codes.  The buffer `string` is a function on      *)
(* 0 .. len-1, indexed as in the source.                                   *)
(*                                                                         *)
(* Integer types modelled: i8, u8 (hand-written impls), i16, u16, i32      *)
(* (instances of impl_sized_numtoa_for / impl_unsized_numtoa_for).  The    *)
(* remaining instances (u32, i64, u64, isize, usize) expand the same       *)
(* macros; their ranges exceed the integers TLC evaluates.                 *)
(***************************************************************************)
EXTENDS Integers, Sequences, FiniteSets, TLC

VARIABLES
    ty,           \* the integer type T of the call
    value,        \* the argument `self` as passed
    base,         \* the argument `base`
    string,       \* the buffer `string: &mut [u8]`
    self,         \* the local `self` (mutated copy)
    index,        \* the local `index`
    is_negative,  \* the local `is_negative`
    start,        \* reverse(): `start`
    end,          \* reverse(): `end`
    pc,           \* position in numtoa: start, digits, sign, reverse, done, panic, ub
    fault,        \* which panic ended the call: none, overflow, lookup, write
    ret,          \* the returned usize (meaningful when pc = "done")
    entry,        \* history: the buffer as it was when the call began
    hi,           \* history: highest buffer position stored to in this call (-1: none)
    mag,          \* history: `self` when the digit phase began
    iters,        \* history: iterations of the digit loops in this call
    swaps,        \* history: swaps performed by reverse() in this call
    oob,          \* history: an unchecked access fell outside the buffer
    calls,        \* history: number of calls begun on this buffer
    prev          \* history: the previous call on this buffer and its outcome

vars == <<ty, value, base, string, self, index, is_negative, start, end, pc,
          fault, ret, entry, hi, mag, iters, swaps, oob, calls, prev>>

---------------------------------------------------------------------------
(* Bounds of the model *)

\* buffers of every length 0 .. SmallLen are tried, and one of length BigLen
SmallLen == 5
\* a buffer long enough for every modelled value (i32 in base 2: 32 digits and a sign)
BigLen == 34
\* calls run one after the other on one buffer (SpecReuse)
MaxCalls == 2

---------------------------------------------------------------------------
(* The integer types *)

Types == {"i8", "u8", "i16", "u16", "i32"}

Signed(t) == t \in {"i8", "i16", "i32"}

Bits(t) == CASE t \in {"i8", "u8"} -> 8
             [] t \in {"i16", "u16"} -> 16
             [] OTHER -> 32

MinOf(t) == IF Signed(t) THEN (-(2 ^ (Bits(t) - 2))) * 2 ELSE 0

MaxOf(t) == IF Signed(t) THEN (2 ^ (Bits(t) - 2) - 1) + 2 ^ (Bits(t) - 2)
            ELSE 2 ^ Bits(t) - 1

\* the types whose impl comes from a macro that tests `base == 10`
\* (the hand-written i8 and u8 impls have the generic loop only)
UsesBase10(t) == t \notin {"i8", "u8"}

\* Rust's `%` on integers truncates toward zero (b > 0 here)
RustRem(a, b) ==
    IF a >= 0 THEN a % b
    ELSE LET m == a % b IN IF m = 0 THEN 0 ELSE m - b

\* Rust's `/` on integers truncates toward zero (b > 0 here)
RustDiv(a, b) == (a - RustRem(a, b)) \div b

\* `self.abs()` in a build without overflow checks: wraps at the minimum
WrappingAbs(t, x) == IF x = MinOf(t) THEN x ELSE -x

---------------------------------------------------------------------------
(* LOOKUP and bounds-checked stores *)

LOOKUP == <<48, 49, 50, 51, 52, 53, 54, 55, 56, 57,
            65, 66, 67, 68, 69, 70, 71, 72, 73, 74, 75, 76, 77,
            78, 79, 80, 81, 82, 83, 84, 85, 86, 87, 88, 89, 90>>

\* a faulty variant of LookupByte: lowercase letters for the digits 10 .. 35
LookupByteLower(i) == IF i < 10 THEN LOOKUP[i + 1] ELSE LOOKUP[i + 1] + 32

\* LOOKUP[i]
LookupByte(i) == LOOKUP[i + 1]

\* whether `LOOKUP[x as usize]` is within the table; a negative x cast to
\* usize is at least 2^63, far beyond it
LookupInRange(x) == x >= 0 /\ x < Len(LOOKUP)

Minus == 45
Zero == 48

\* whether `string[i]` passes the slice bounds check
InBounds(s, i) == i \in DOMAIN s

Max(a, b) == IF a >= b THEN a ELSE b

\* The statements `string[at] = LOOKUP[d as usize];` of ws, run in order
\* from state st = [buf, fault, hi].  Each evaluates its right-hand side
\* first (panic: lookup), then the bounds check of the store (panic: write);
\* the first panic ends the run, earlier stores stay.
RECURSIVE StoreDigits(_, _)
StoreDigits(st, ws) ==
    IF ws = <<>> \/ st.fault # "none" THEN st
    ELSE LET w == Head(ws) IN
         IF ~LookupInRange(w.d) THEN [st EXCEPT !.fault = "lookup"]
         ELSE IF ~InBounds(st.buf, w.at) THEN [st EXCEPT !.fault = "write"]
         ELSE StoreDigits([buf |-> [st.buf EXCEPT ![w.at] = LookupByte(w.d)],
                           fault |-> "none",
                           hi |-> Max(st.hi, w.at)],
                          Tail(ws))

W(at, d) == [at |-> at, d |-> d]

Cur == [buf |-> string, fault |-> "none", hi |-> hi]

---------------------------------------------------------------------------
(* Inputs *)

Bases == 2 .. 36

KeyBases == {2, 10, 16, 36}

Magnitudes == {1, 2, 9, 10, 11, 35, 36, 99, 100, 127, 128, 255, 256, 999, 1000,
               1001, 9999, 10000, 10001, 10010, 12345, 32767, 32768, 65535,
               99999, 100000, 100001, 162392, 1000000, 35320842, 99999999,
               100000000, 100000001, 2147483646, 2147483647}

InRange(t, v) == MinOf(t) <= v /\ v <= MaxOf(t)

KeyValues(t) ==
    {0, MinOf(t), MaxOf(t), MinOf(t) + 1}
    \cup {m \in Magnitudes : InRange(t, m)}
    \cup (IF Signed(t) THEN {-m : m \in {k \in Magnitudes : InRange(t, k)}} ELSE {})

\* values tried with every key base
DenseValues(t) ==
    IF Bits(t) = 8 THEN MinOf(t) .. MaxOf(t)
    ELSE KeyValues(t)

\* values tried in base 10 around the group boundaries of base_10!
TenValues(t) ==
    IF UsesBase10(t)
    THEN {v \in (0 .. 120) \cup (990 .. 1010) \cup (9990 .. 10010) : InRange(t, v)}
         \cup (IF Signed(t) THEN {-v : v \in (9990 .. 10010)} ELSE {})
    ELSE {}

Inputs ==
    UNION {({t} \X KeyValues(t) \X Bases) : t \in Types}
    \cup UNION {({t} \X DenseValues(t) \X KeyBases) : t \in Types}
    \cup UNION {({t} \X TenValues(t) \X {10}) : t \in Types}

BufLens == (0 .. SmallLen) \cup {BigLen}

\* a fresh buffer, as `[0u8; N]`
Fresh(n) == [i \in 0 .. n - 1 |-> 0]

NoPrev == [ty |-> "none", value |-> 0, base |-> 0, ok |-> FALSE, out |-> <<>>]

\* the locals of numtoa as the call begins, for argument v
Begin(t, v, b) ==
    /\ ty' = t
    /\ value' = v
    /\ base' = b
    /\ self' = v
    /\ index' = 0
    /\ is_negative' = FALSE
    /\ start' = 0
    /\ end' = 0
    /\ pc' = "start"
    /\ fault' = "none"
    /\ ret' = 0
    /\ hi' = -1
    /\ mag' = 0
    /\ iters' = 0
    /\ swaps' = 0

\* the state as the first call on a fresh buffer begins
InitWith(inputs, lens) ==
    /\ \E in \in inputs :
         /\ ty = in[1]
         /\ value = in[2]
         /\ base = in[3]
         /\ self = in[2]
    /\ \E n \in lens : string = Fresh(n)
    /\ entry = string
    /\ index = 0
    /\ is_negative = FALSE
    /\ start = 0
    /\ end = 0
    /\ pc = "start"
    /\ fault = "none"
    /\ ret = 0
    /\ hi = -1
    /\ mag = 0
    /\ iters = 0
    /\ swaps = 0
    /\ oob = FALSE
    /\ calls = 1
    /\ prev = NoPrev

Init == InitWith(Inputs, BufLens)

---------------------------------------------------------------------------
(* Steps of numtoa *)

\* a panic: the call ends, the buffer keeps the stores made so far
Panic(st) ==
    /\ pc' = "panic"
    /\ fault' = st.fault
    /\ string' = st.buf
    /\ hi' = st.hi

\* a faulty variant of ReverseEnd: the whole slice is reversed, not its
\* first `length` bytes
ReverseEndWholeBuffer(s, length) == Cardinality(DOMAIN s) - 1

\* reverse(): `let mut end = length as isize - 1;`
ReverseEnd(s, length) == length - 1

\* where control goes once the digits are written: the sized impls push
\* the sign first, the unsized ones call reverse(string, index) at once
AfterDigits(t, idx) ==
    IF Signed(t)
    THEN /\ pc' = "sign"
         /\ UNCHANGED <<start, end>>
    ELSE /\ pc' = "reverse"
         /\ start' = 0
         /\ end' = ReverseEnd(string', idx)

\* `if self < 0 { is_negative = true; self = self.abs(); }`
EnterNegative ==
    /\ pc = "start"
    /\ Signed(ty)
    /\ self < 0
    /\ is_negative' = TRUE
    /\ self' = WrappingAbs(ty, self)
    /\ mag' = self'
    /\ pc' = "digits"
    /\ UNCHANGED <<ty, value, base, string, index, start, end, fault, ret,
                   entry, hi, iters, swaps, oob, calls, prev>>

\* `self.abs()` of the minimum in a build with overflow checks: it panics
EnterAbsOverflow ==
    /\ pc = "start"
    /\ Signed(ty)
    /\ self = MinOf(ty)
    /\ is_negative' = TRUE
    /\ pc' = "panic"
    /\ fault' = "overflow"
    /\ UNCHANGED <<ty, value, base, string, self, index, start, end, ret,
                   entry, hi, mag, iters, swaps, oob, calls, prev>>

\* `if self == 0 { string[0] = b'0'; return 1; }`
EnterZero ==
    /\ pc = "start"
    /\ self = 0
    /\ IF InBounds(string, 0)
       THEN /\ string' = [string EXCEPT ![0] = Zero]
            /\ hi' = Max(hi, 0)
            /\ ret' = 1
            /\ pc' = "done"
            /\ fault' = fault
       ELSE /\ Panic([Cur EXCEPT !.fault = "write"])
            /\ ret' = ret
    /\ UNCHANGED <<ty, value, base, self, index, is_negative, start, end,
                   entry, mag, iters, swaps, oob, calls, prev>>

\* neither branch taken: a positive value goes on to the digit loops
EnterPositive ==
    /\ pc = "start"
    /\ self > 0
    /\ mag' = self
    /\ pc' = "digits"
    /\ UNCHANGED <<ty, value, base, string, self, index, is_negative, start,
                   end, fault, ret, entry, hi, iters, swaps, oob, calls, prev>>

\* a faulty variant of GroupStores: the hundreds and tens digits land in
\* each other's positions
GroupStoresSwapped(n, idx) ==
    LET rem == RustRem(n, 10000) IN
    << W(idx + 3, RustDiv(rem, 1000)),
       W(idx + 1, RustDiv(RustRem(rem, 1000), 100)),
       W(idx + 2, RustDiv(RustRem(rem, 100), 10)),
       W(idx, RustRem(rem, 10)) >>

\* the four stores of one pass of `while $number > 9999`
GroupStores(n, idx) ==
    LET rem == RustRem(n, 10000) IN
    << W(idx + 3, RustDiv(rem, 1000)),
       W(idx + 2, RustDiv(RustRem(rem, 1000), 100)),
       W(idx + 1, RustDiv(RustRem(rem, 100), 10)),
       W(idx, RustRem(rem, 10)) >>

\* base_10!: one pass of `while $number > 9999 { ... }`
Base10Group ==
    /\ pc = "digits"
    /\ UsesBase10(ty) /\ base = 10
    /\ self > 9999
    /\ LET st == StoreDigits(Cur, GroupStores(self, index)) IN
       IF st.fault = "none"
       THEN /\ string' = st.buf
            /\ hi' = st.hi
            /\ index' = index + 4
            /\ self' = RustDiv(self, 10000)
            /\ iters' = iters + 1
            /\ UNCHANGED <<pc, fault>>
       ELSE /\ Panic(st)
            /\ UNCHANGED <<index, self, iters>>
    /\ UNCHANGED <<ty, value, base, is_negative, start, end, ret, entry, mag,
                   swaps, oob, calls, prev>>

\* a faulty variant of TailStores: the last group is stored as the loop
\* stores a group, all four positions, zero-padded
TailStoresPadded(n, idx) ==
    << W(idx + 3, RustDiv(n, 1000)),
       W(idx + 2, RustDiv(RustRem(n, 1000), 100)),
       W(idx + 1, RustDiv(RustRem(n, 100), 10)),
       W(idx, RustRem(n, 10)) >>

\* the stores of the cascade `if $number > 999 ... else if > 99 ... else if > 9 ... else`
TailStores(n, idx) ==
    IF n > 999 THEN
        LET rem == RustRem(n, 1000) IN
        << W(idx + 3, RustDiv(n, 1000)),
           W(idx + 2, RustDiv(rem, 100)),
           W(idx + 1, RustDiv(RustRem(rem, 100), 10)),
           W(idx, RustRem(rem, 10)) >>
    ELSE IF n > 99 THEN
        LET rem == RustRem(n, 100) IN
        << W(idx + 2, RustDiv(n, 100)),
           W(idx + 1, RustDiv(rem, 10)),
           W(idx, RustRem(rem, 10)) >>
    ELSE IF n > 9 THEN
        << W(idx + 1, RustDiv(n, 10)),
           W(idx, RustRem(n, 10)) >>
    ELSE << W(idx, n) >>

\* the `$index += 4 / 3 / 2 / 1` of the cascade's branches
TailAdvance(n) ==
    IF n > 999 THEN 4 ELSE IF n > 99 THEN 3 ELSE IF n > 9 THEN 2 ELSE 1

\* base_10!: the cascade after the loop, reached when $number <= 9999
Base10Tail ==
    /\ pc = "digits"
    /\ UsesBase10(ty) /\ base = 10
    /\ ~(self > 9999)
    /\ LET st == StoreDigits(Cur, TailStores(self, index)) IN
       IF st.fault = "none"
       THEN /\ string' = st.buf
            /\ hi' = st.hi
            /\ index' = index + TailAdvance(self)
            /\ iters' = iters + 1
            /\ fault' = fault
            /\ AfterDigits(ty, index + TailAdvance(self))
       ELSE /\ Panic(st)
            /\ UNCHANGED <<index, iters, start, end>>
    /\ UNCHANGED <<ty, value, base, self, is_negative, ret, entry, mag,
                   swaps, oob, calls, prev>>

\* one pass of `while self != 0 { let rem = self % base; string[index] =
\* LOOKUP[rem as usize]; index += 1; self /= base; }`
GenericDigit ==
    /\ pc = "digits"
    /\ ~(UsesBase10(ty) /\ base = 10)
    /\ self # 0
    /\ LET st == StoreDigits(Cur, << W(index, RustRem(self, base)) >>) IN
       IF st.fault = "none"
       THEN /\ string' = st.buf
            /\ hi' = st.hi
            /\ index' = index + 1
            /\ self' = RustDiv(self, base)
            /\ iters' = iters + 1
            /\ fault' = fault
            /\ IF RustDiv(self, base) # 0
               THEN UNCHANGED <<pc, start, end>>
               ELSE AfterDigits(ty, index + 1)
       ELSE /\ Panic(st)
            /\ UNCHANGED <<index, self, iters, start, end>>
    /\ UNCHANGED <<ty, value, base, is_negative, ret, entry, mag, swaps, oob,
                   calls, prev>>

\* `if is_negative { string[index] = b'-'; index += 1; }` and the call
\* reverse(string, index): `start = 0; end = length as isize - 1`
Sign ==
    /\ pc = "sign"
    /\ IF is_negative
       THEN IF InBounds(string, index)
            THEN /\ string' = [string EXCEPT ![index] = Minus]
                 /\ hi' = Max(hi, index)
                 /\ index' = index + 1
                 /\ pc' = "reverse"
                 /\ start' = 0
                 /\ end' = ReverseEnd(string', index + 1)
                 /\ fault' = fault
            ELSE /\ Panic([Cur EXCEPT !.fault = "write"])
                 /\ UNCHANGED <<index, start, end>>
       ELSE /\ pc' = "reverse"
            /\ start' = 0
            /\ end' = ReverseEnd(string, index)
            /\ UNCHANGED <<string, hi, index, fault>>
    /\ UNCHANGED <<ty, value, base, self, is_negative, ret, entry, mag, iters,
                   swaps, oob, calls, prev>>

\* swap(x, y) through raw pointers at offsets i and j: no bounds check
SwapAt(s, i, j) == [s EXCEPT ![i] = s[j], ![j] = s[i]]

\* reverse(): one pass of `while start < end { swap; start += 1; end -= 1; }`
ReverseSwap ==
    /\ pc = "reverse"
    /\ start < end
    /\ IF InBounds(string, start) /\ InBounds(string, end)
       THEN /\ string' = SwapAt(string, start, end)
            /\ hi' = Max(hi, end)
            /\ UNCHANGED <<pc, oob>>
       ELSE \* an access outside the slice: undefined behaviour
            /\ oob' = TRUE
            /\ pc' = "ub"
            /\ UNCHANGED <<string, hi>>
    /\ start' = start + 1
    /\ end' = end - 1
    /\ swaps' = swaps + 1
    /\ UNCHANGED <<ty, value, base, self, index, is_negative, fault, ret,
                   entry, mag, iters, calls, prev>>

\* reverse() returns once `start < end` fails, and numtoa returns `index`
ReverseReturn ==
    /\ pc = "reverse"
    /\ ~(start < end)
    /\ pc' = "done"
    /\ ret' = index
    /\ UNCHANGED <<ty, value, base, string, self, index, is_negative, start,
                   end, fault, entry, hi, mag, iters, swaps, oob, calls, prev>>

\* the generic loop run to its end on n, as the bytes it emits in order:
\* `while n != 0 { emit LOOKUP[n % b]; n /= b }`
RECURSIVE SlowPath(_, _)
SlowPath(n, b) ==
    IF n = 0 THEN <<>>
    ELSE << LookupByte(RustRem(n, b)) >> \o SlowPath(RustDiv(n, b), b)

\* buf[0 .. n] as a sequence of bytes
Slice(s, n) == [i \in 1 .. n |-> s[i - 1]]

\* the bytes the call returned: &string[0 .. ret]
Out == Slice(string, ret)

Next ==
    \/ EnterNegative
    \/ EnterAbsOverflow
    \/ EnterZero
    \/ EnterPositive
    \/ Base10Group
    \/ Base10Tail
    \/ GenericDigit
    \/ Sign
    \/ ReverseSwap
    \/ ReverseReturn

\* one call of numtoa on a fresh buffer
Spec == Init /\ [][Next]_vars

\* every enabled step is eventually taken: a call runs on one thread, uninterrupted
FairSpec == Spec /\ WF_vars(Next)

---------------------------------------------------------------------------
(* Reuse of one buffer for several calls, as in the crate's doc example *)

ReuseInputs ==
    ({"i8"} \X {-128, -127, -7, 0, 7, 127} \X {2, 10})
    \cup ({"u8"} \X {0, 255} \X {16})
    \cup ({"i16"} \X {-32768, -10000, 10000} \X {10})
    \cup ({"i16"} \X {-255, 255} \X {16})
    \cup ({"u16"} \X {9, 65535} \X {2, 10, 36})
    \cup ({"i32"} \X {-2147483647, -6235, 0, 6235, 162392, 2147483647} \X {10})
    \cup ({"i32"} \X {MinOf("i32"), -6235, 6235} \X {36})

ReuseLens == {SmallLen, BigLen}

InitReuse == InitWith(ReuseInputs, ReuseLens)

\* the caller starts another conversion on the same buffer, after a call
\* that returned or one whose panic was caught; the buffer keeps its bytes
NextCall ==
    /\ pc \in {"done", "panic"}
    /\ calls < MaxCalls
    /\ \E in \in ReuseInputs : Begin(in[1], in[2], in[3])
    /\ entry' = string
    /\ calls' = calls + 1
    /\ prev' = [ty |-> ty, value |-> value, base |-> base,
                ok |-> (pc = "done"),
                out |-> IF pc = "done" THEN Out ELSE <<>>]
    /\ UNCHANGED <<string, oob>>

NextReuse ==
    \/ Next
    \/ NextCall

SpecReuse == InitReuse /\ [][NextReuse]_vars

---------------------------------------------------------------------------
(* Reference notions the properties are stated with.  They are written     *)
(* independently of the steps above: most significant digit first, by      *)
(* floor division, with the digit characters given by arithmetic.          *)

DigitChar(d) == IF d < 10 THEN 48 + d ELSE 55 + d

\* the canonical base-b numeral of v >= 0, most significant digit first
RECURSIVE CanonNat(_, _)
CanonNat(v, b) ==
    IF v < b THEN << DigitChar(v) >>
    ELSE Append(CanonNat(v \div b, b), DigitChar(v % b))

\* the canonical base-b numeral of |v| for v < 0, computed without negating v
RECURSIVE CanonNeg(_, _)
CanonNeg(v, b) ==
    IF v > -b THEN << DigitChar(-v) >>
    ELSE LET d == (b - (v % b)) % b IN
         Append(CanonNeg((v + d) \div b, b), DigitChar(d))

\* the canonical text of v in base b: no leading zeros, uppercase letters,
\* a leading '-' for a negative v, "0" for zero
Canon(v, b) == IF v >= 0 THEN CanonNat(v, b) ELSE << 45 >> \o CanonNeg(v, b)

\* the value of a digit character in base b, or -1 when it is none
DigitVal(c, b) ==
    LET d == IF c \in 48 .. 57 THEN c - 48
             ELSE IF c \in 65 .. 90 THEN c - 55 ELSE -1
    IN IF d < b THEN d ELSE -1

\* the digits ds read in base b onto acc, subtracting when neg (so that the
\* minimum of a type is reached without passing through its absolute value)
RECURSIVE ParseDigits(_, _, _, _)
ParseDigits(ds, b, acc, neg) ==
    IF ds = <<>> THEN [ok |-> TRUE, n |-> acc]
    ELSE LET d == DigitVal(Head(ds), b) IN
         IF d < 0 THEN [ok |-> FALSE, n |-> 0]
         ELSE ParseDigits(Tail(ds), b, IF neg THEN acc * b - d ELSE acc * b + d, neg)

\* text parsed as a base-b integer: an optional leading '-', then digits
Parse(txt, b) ==
    IF txt = <<>> THEN [ok |-> FALSE, n |-> 0]
    ELSE IF Head(txt) = 45
         THEN IF Tail(txt) = <<>> THEN [ok |-> FALSE, n |-> 0]
              ELSE ParseDigits(Tail(txt), b, 0, TRUE)
         ELSE ParseDigits(txt, b, 0, FALSE)

BufLen == Cardinality(DOMAIN string)

\* the characters the text of `value` needs
Needed == Len(Canon(value, base))

\* the precondition of the conversion: the buffer holds the whole text
LargeEnough == BufLen >= Needed

Terminated == pc \in {"done", "panic", "ub"}

IsMinimum == Signed(ty) /\ value = MinOf(ty)

---------------------------------------------------------------------------
(* Properties *)

\* C1: with a large enough buffer, every call returns n such that buf[0..n]
\* parsed in the call's base (optional '-', digits 0-9 then A-Z) is exactly
\* the value converted.
RoundTrip ==
    (Terminated /\ LargeEnough)
        => (pc = "done" /\ Parse(Out, base) = [ok |-> TRUE, n |-> value])

\* the round trip holds for every value but the minimum of a signed type
RoundTripAboveMinimum ==
    (Terminated /\ LargeEnough /\ ~IsMinimum)
        => (pc = "done" /\ Parse(Out, base) = [ok |-> TRUE, n |-> value])

\* C2: converting the minimum of a signed type with a large enough buffer
\* does not panic and returns '-' followed by the digits of the magnitude.
MinimumValueSafe ==
    (Terminated /\ IsMinimum /\ LargeEnough)
        => (pc = "done" /\ Out = Canon(value, base))

\* what the code does at the minimum: the call never returns; with a large
\* enough buffer it ends in abs()'s overflow panic or in an out-of-range
\* LOOKUP index
MinimumAlwaysPanics ==
    IsMinimum => /\ pc # "done"
                 /\ (pc = "panic" /\ LargeEnough) => fault \in {"overflow", "lookup"}

\* C3: with a buffer shorter than the text needs, the call ends in a panic
\* at a bounds-checked store to the buffer, never returns a count, and no
\* access, reverse()'s unchecked swaps included, falls outside the buffer.
UndersizedFaultsAtWrite ==
    /\ ~oob
    /\ hi < BufLen
    /\ ~LargeEnough => pc # "done"
    /\ (~LargeEnough /\ Terminated) => (pc = "panic" /\ fault = "write")

\* the part of C3 that holds of every value: no return, no access outside
\* the buffer; and the panic is at a store for every value but the minimum
UndersizedFaultsLoudly ==
    /\ ~oob
    /\ pc # "ub"
    /\ hi < BufLen
    /\ ~LargeEnough => pc # "done"
    /\ (~LargeEnough /\ Terminated /\ ~IsMinimum) => (pc = "panic" /\ fault = "write")

\* C4: a call on a negative v (buffer large enough) returns text whose first
\* byte is '-'; and when the call before it on the same buffer converted
\* abs(v) in the same type and base, the rest of the text is that call's
\* text and the count is one more than that call's.
SignPlacement ==
    (Terminated /\ value < 0 /\ LargeEnough)
        => /\ pc = "done"
           /\ Out[1] = Minus
           /\ (prev.ok /\ prev.ty = ty /\ prev.base = base
                 /\ prev.value > 0 /\ prev.value + value = 0)
                => (Tail(Out) = prev.out /\ ret = Len(prev.out) + 1)

\* sign placement holds for every negative value but the minimum
SignPlacementAboveMinimum ==
    (Terminated /\ value < 0 /\ LargeEnough /\ ~IsMinimum)
        => /\ pc = "done"
           /\ Out[1] = Minus
           /\ (prev.ok /\ prev.ty = ty /\ prev.base = base
                 /\ prev.value > 0 /\ prev.value + value = 0)
                => (Tail(Out) = prev.out /\ ret = Len(prev.out) + 1)

\* C5: for an unsigned type, every value up to the maximum and every base,
\* a call that returns n leaves in buf[0..n] exactly the canonical numeral,
\* most significant digit first; and with a large enough buffer it returns.
UnsignedExact ==
    ~Signed(ty)
        => /\ pc = "done" => (Out = CanonNat(value, base)
                               /\ ret = Len(CanonNat(value, base)))
           /\ (Terminated /\ LargeEnough) => pc = "done"

\* the maximum of u16 converted in base 10: "65535"
UnsignedMaxConverted ==
    /\ pc = "done"
    /\ ty = "u16" /\ value = MaxOf("u16") /\ base = 10
    /\ Out = << 54, 53, 53, 51, 53 >>

\* C6: with a large enough buffer the call returns the length of the
\* canonical text: no leading zeros, one more for '-', and 1 for zero.
LengthCorrect ==
    (Terminated /\ LargeEnough) => (pc = "done" /\ ret = Needed)

\* the returned count is right whenever a count is returned
LengthCorrectOnReturn ==
    pc = "done" => (ret = Needed /\ (value = 0 => (ret = 1 /\ string[0] = Zero)))

\* C7: when the call returns n, every position i >= n holds the byte it held
\* when the call began, and no store of the call (the base-10 path's stores
\* at index+1 .. index+3 included) was at a position >= n.
FrameKept ==
    pc = "done"
        => /\ hi < ret
           /\ \A i \in DOMAIN string : i >= ret => string[i] = entry[i]

\* a base-10 conversion through the four-digit loop and the cascade has
\* returned, in a buffer with room left beyond the text
FastPathReturnedWithRoom ==
    /\ pc = "done"
    /\ UsesBase10(ty) /\ base = 10
    /\ iters >= 2
    /\ BufLen > ret

\* C8: when base_10! has written the digits of a non-negative magnitude
\* (before the sign and the reversal), the index and the bytes
\* string[0..index] are those of the one-digit-per-pass loop on the same
\* magnitude from index 0.
FastPathEqualsSlowPath ==
    (UsesBase10(ty) /\ base = 10 /\ mag >= 0
       /\ (pc = "sign" \/ (pc = "reverse" /\ ~Signed(ty) /\ swaps = 0)))
        => /\ index = Len(SlowPath(mag, 10))
           /\ Slice(string, index) = SlowPath(mag, 10)

\* base_10! has written 100001: one pass of the loop (0001) and the
\* two-digit branch of the cascade (10)
FastPathWroteInnerZeros ==
    /\ UsesBase10(ty) /\ base = 10 /\ mag = 100001
    /\ pc \in {"sign", "reverse"} /\ swaps = 0
    /\ index = 6

\* the outcome of a call on a fresh buffer: it returns exactly when the
\* buffer is large enough and the value is not a signed minimum, and then
\* returns the canonical text
FreshReturns == LargeEnough /\ ~IsMinimum

\* C9: a call on a buffer that an earlier call has written has the outcome
\* it has on a fresh buffer: it returns in the same cases, with the same
\* count and bytes; the outcome depends on the type, value, base and buffer
\* length only.
ReuseSameAsFresh ==
    (calls >= 2 /\ Terminated)
        => /\ (pc = "done") <=> FreshReturns
           /\ pc = "done" => (ret = Needed /\ Out = Canon(value, base))

\* the same outcome on the fresh buffer (the first call)
FreshOutcome ==
    (calls = 1 /\ Terminated)
        => /\ entry = Fresh(BufLen)
           /\ (pc = "done") <=> FreshReturns
           /\ pc = "done" => (ret = Needed /\ Out = Canon(value, base))

\* a second call has returned a text shorter than the first call's, and
\* bytes of the first remain beyond it
ShorterSecondResult ==
    /\ calls = 2
    /\ pc = "done"
    /\ prev.ok
    /\ ret < Len(prev.out)
    /\ string[ret] # 0

\* the number of base-b digits of the magnitude of `value`
DigitCount == IF value < 0 THEN Needed - 1 ELSE Needed

\* control is at the head of a digit loop whose test holds:
\* `while $number > 9999` in base_10!, `while self != 0` otherwise
InDigitLoop ==
    /\ pc = "digits"
    /\ IF UsesBase10(ty) /\ base = 10 THEN self > 9999 ELSE self # 0

\* each completed pass of a digit loop strictly decreases the working value
\* in magnitude (a wrapped minimum is negative and rises toward 0), and
\* each pass of reverse() narrows end - start
LoopsDecrease ==
    [][ /\ (InDigitLoop /\ pc' # "panic")
           => (IF self < 0 THEN self < self' /\ self' <= 0
               ELSE 0 <= self' /\ self' < self)
        /\ (pc = "reverse" /\ pc' = "reverse")
           => (end' - start' < end - start) ]_vars

\* every call ends: it returns or panics
Terminates == <>(pc \in {"done", "panic"})

\* with a large enough buffer, the generic loop of a nonzero value ends with
\* the working value at 0 after exactly as many passes as the value has
\* digits; no digit loop makes more passes than that; reverse() has ended
\* with start >= end, having swapped nothing for a length of 0 or 1
LoopsRunToTheirEnd ==
    /\ (Terminated /\ LargeEnough /\ value # 0
          /\ ~(UsesBase10(ty) /\ base = 10))
         => (self = 0 /\ iters = DigitCount)
    /\ iters <= DigitCount
    /\ pc = "done" => (start >= end \/ value = 0)
    /\ (pc = "done" /\ ret <= 1) => swaps = 0

\* the same, for every value but the minimum of a signed type
LoopsRunToTheirEndAboveMinimum ==
    /\ (Terminated /\ LargeEnough /\ value # 0 /\ ~IsMinimum
          /\ ~(UsesBase10(ty) /\ base = 10))
         => (self = 0 /\ iters = DigitCount)
    /\ iters <= DigitCount
    /\ pc = "done" => (start >= end \/ value = 0)
    /\ (pc = "done" /\ ret <= 1) => swaps = 0

\* C10: every call terminates; each pass of the generic loop and of
\* `while number > 9999` strictly decreases the working value, which in the
\* generic path reaches 0 after exactly as many passes as the value has
\* base-b digits; reverse()'s loop ends once start >= end, with no swap for
\* a length of 0 or 1.
TerminationClaim == Terminates /\ LoopsDecrease /\ []LoopsRunToTheirEnd

\* what holds of C10 for every value: termination and the decrease; and the
\* exact pass count for every value but the minimum of a signed type
TerminationAboveMinimum ==
    Terminates /\ LoopsDecrease /\ []LoopsRunToTheirEndAboveMinimum

\* the conversions of the crate's documentation that fit the modelled types
DocExamples ==
    pc = "done"
        => /\ (ty = "i32" /\ value = 162392 /\ base = 10)
                => Out = << 49, 54, 50, 51, 57, 50 >>
           /\ (ty = "i32" /\ value = -6235 /\ base = 10)
                => Out = << 45, 54, 50, 51, 53 >>
           /\ (ty = "i32" /\ value = 35320842 /\ base = 10)
                => Out = << 51, 53, 51, 50, 48, 56, 52, 50 >>
           /\ (ty = "u8" /\ value = 255 /\ base = 16) => Out = << 70, 70 >>
           /\ (ty = "i32" /\ value = 0 /\ base = 2) => Out = << 48 >>

=============================================================================
